---- MODULE Spec2Model ----
(***************************************************************************)
(* The audio part of expression.js: one audio player (the div created by   *)
(* new_audio), its tracks, the lookahead scheduler schedule_audio driven   *)
(* by setInterval, the transport functions toggle_play and reset_audio and *)
(* the volume functions toggle_mute and set_volume.                        *)
(*                                                                         *)
(* Time.  AudioContext.currentTime and every note duration are seconds in  *)
(* the source (floating point).  The model counts time in units of 1/7200  *)
(* second, in which every duration the source computes from BPM = 108 is   *)
(* a whole number: a full note is 16000 units, a thirty-second note 500,   *)
(* its dotted form 750, and 20 % of that 150.  Seconds(n) and Millis(n)    *)
(* convert.  Rounding of floating point is not modelled.                   *)
(*                                                                         *)
(* JavaScript values.  A value that may be a number, a string or undefined *)
(* is a record [type, num, str]; a string is the sequence of its           *)
(* one-character strings, so that indexing and slicing are modelled as     *)
(* the source does them.                                                   *)
(***************************************************************************)
EXTENDS Integers, Sequences, FiniteSets, TLC

VARIABLES
  audio,          \* CURRENT_AUDIO: the player record built by new_audio
  CURRENT_TRACK,  \* undefined, or the index of the current track in the _tracks_ of
                  \* the player that owns it
  owner,          \* the player whose _tracks_ hold the current track: players are
                  \* numbered in the order new_audio created them; 0 for undefined
  older,          \* the players created before CURRENT_AUDIO, in that order
  hung,           \* TRUE once a handler entered a loop that never exits
  tick,           \* history: the latest schedule_audio call (clock time, outcome, commits)
  sched,          \* history: per track, the commits since target_time was initialised
  after_play,     \* history: the latest reset_audio, and per track the first note
                  \* committed after the play that follows it
  call,           \* history: the latest add_note call: its arguments, the Note it
                  \* stored and what it reported through console.warn
  vol             \* history: the latest volume call on CURRENT_AUDIO, and the value
                  \* of the latest set_volume (the initial volume before any)

vars == <<audio, CURRENT_TRACK, owner, older, hung, tick, sched, after_play, call, vol>>

-----------------------------------------------------------------------------
(* JavaScript values *)

JSUndefined == [type |-> "undefined", num |-> 0, str |-> <<>>]

JSNum(n) == [type |-> "number", num |-> n, str |-> <<>>]

JSStr(s) == [type |-> "string", num |-> 0, str |-> s]

IsUndefined(v) == v.type = "undefined"

IsNum(v) == v.type = "number"

IsStr(v) == v.type = "string"

\* s.slice(k) for a string s and 0 <= k
Slice(s, k) == IF k >= Len(s) THEN <<>> ELSE SubSeq(s, k + 1, Len(s))

\* the decimal digits of a natural number, the way String(n) writes them
RECURSIVE Digits(_)
Digits(n) ==
  LET d == <<"0", "1", "2", "3", "4", "5", "6", "7", "8", "9">>
  IN  IF n < 10 THEN <<d[n + 1]>> ELSE Digits(n \div 10) \o <<d[(n % 10) + 1]>>

\* String(n) for an integer n: the property name under which obj[n] is stored
NumberToString(n) == IF n < 0 THEN <<"-">> \o Digits(0 - n) ELSE Digits(n)

\* the property name JavaScript uses for obj[v]
PropertyName(v) == IF IsNum(v) THEN NumberToString(v.num) ELSE v.str

Seconds(n) == n * 7200

Millis(n) == (n * 7200) \div 1000

-----------------------------------------------------------------------------
(* Constants of the source *)

SCHEDULING_LOOKAHEAD == 80

BPM == 108

\* (1/(BPM / 60)) * 4 seconds
FULL_NOTE_LENGTH == (Seconds(60) \div BPM) * 4

TONE_LETTERS ==
  << <<"A">>, <<"A", "#">>, <<"B">>, <<"C">>, <<"C", "#">>, <<"D">>,
     <<"D", "#">>, <<"E">>, <<"F">>, <<"F", "#">>, <<"G">>, <<"G", "#">> >>

BASE_LETTERS == <<"A", "B", "C", "D", "E", "F", "G">>

PENTATONIC_LETTERS == << <<"A">>, <<"C">>, <<"D">>, <<"E">>, <<"G">> >>

OCTAVES == << <<"-", "-">>, <<"-">>, <<>>, <<"+">>, <<"+", "+">> >>

\* attack and sustain time in % of the note duration (0.2 and 0.3 in the source)
ATTACK_TIME == 20

SUSTAIN_TIME == 30

\* the element of a one-element set.  { e(x) : x \in {v} } is e with x the
\* value of v, computed once; the definitions below use it where a result is
\* used more than once.
The(S) == CHOOSE x \in S : TRUE

\* seq.indexOf(x) of JavaScript, 0-based, -1 when absent
IndexOf(seq, x) ==
  IF \E i \in 1..Len(seq) : seq[i] = x
    THEN (CHOOSE i \in 1..Len(seq) : seq[i] = x /\ \A j \in 1..(i - 1) : seq[j] # x) - 1
    ELSE -1

-----------------------------------------------------------------------------
(* AudioParam: the gain of a GainNode.  value is the value the parameter   *)
(* has now; events are the scheduled changes the clock has not reached, in *)
(* the order they were scheduled.  A change scheduled for a time the clock *)
(* has already reached takes effect at once.  A negative time makes the    *)
(* Web Audio call throw a RangeError.                                      *)

NewParam(v) == [value |-> v, events |-> <<>>]

Event(type, v, t) == [type |-> type, value |-> v, time |-> t, pre |-> FALSE]

Schedule(param, type, v, t, now) ==
  IF t <= now
    THEN [param EXCEPT !.value = v]
    ELSE [param EXCEPT !.events = Append(@, Event(type, v, t))]

\* gain.setValueAtTime(v, t)
setValueAtTime(param, v, t, now) == Schedule(param, "set", v, t, now)

\* gain.linearRampToValueAtTime(v, t)
linearRampToValueAtTime(param, v, t, now) == Schedule(param, "ramp", v, t, now)

\* gain.cancelScheduledValues(t): removes every event with time >= t
cancelScheduledValues(param, t) ==
  [param EXCEPT !.events = SelectSeq(@, LAMBDA e : e.time < t)]

\* gain.value = v, which is setValueAtTime(v, currentTime)
SetValue(param, v, now) == setValueAtTime(param, v, now, now)

\* the rendering thread: when the clock reaches now, every event with
\* time <= now has been applied; the value is that of the latest of them
\* (by time, then by the order of scheduling)
Render(param, now) ==
  LET ev == param.events
      due == {i \in 1..Len(ev) : ev[i].time <= now}
      last == CHOOSE i \in due :
                \A j \in due : ev[j].time < ev[i].time \/ (ev[j].time = ev[i].time /\ j <= i)
  IN  IF due = {} THEN param
      ELSE [value |-> ev[last].value,
            events |-> SelectSeq(ev, LAMBDA e : e.time > now)]

-----------------------------------------------------------------------------
(* Tracks and their pool of keys *)

\* the pool entry created for octave suffix OCTAVES[o] and semitone
\* TONE_LETTERS[i]: entries are numbered in the order setup_track creates them
EntryOf(o, i) == (o - 1) * Len(TONE_LETTERS) + i

NumEntries == Len(OCTAVES) * Len(TONE_LETTERS)

\* track.keys as it would be if the pentatonic numbers were counted from
\* the second octave suffix on
PoolKeysShiftedOctave ==
  LET letters == {<<TONE_LETTERS[i] \o OCTAVES[o], EntryOf(o, i)>> :
                    o \in 1..Len(OCTAVES), i \in 1..Len(TONE_LETTERS)}
      keys1 == [n \in {p[1] : p \in letters} |-> (CHOOSE p \in letters : p[1] = n)[2]]
      numbers == {<<NumberToString(Len(PENTATONIC_LETTERS) * ((o - 1) - 1) + (i - 1)),
                    PENTATONIC_LETTERS[i] \o OCTAVES[o]>> :
                    o \in 1..Len(OCTAVES), i \in 1..Len(PENTATONIC_LETTERS)}
  IN  [n \in (DOMAIN keys1) \cup {p[1] : p \in numbers} |->
         IF \E p \in numbers : p[1] = n
           THEN keys1[(CHOOSE p \in numbers : p[1] = n)[2]]
           ELSE keys1[n]]

\* track.keys after setup_track, as the map from property name to pool
\* entry: first the letter names, then the pentatonic numbers, which are
\* assigned the entry object of a letter name (the same object, not a copy)
PoolKeys ==
  LET letters == {<<TONE_LETTERS[i] \o OCTAVES[o], EntryOf(o, i)>> :
                    o \in 1..Len(OCTAVES), i \in 1..Len(TONE_LETTERS)}
      keys1 == [n \in {p[1] : p \in letters} |-> (CHOOSE p \in letters : p[1] = n)[2]]
      numbers == {<<NumberToString(Len(PENTATONIC_LETTERS) * ((o - 1) - 2) + (i - 1)),
                    PENTATONIC_LETTERS[i] \o OCTAVES[o]>> :
                    o \in 1..Len(OCTAVES), i \in 1..Len(PENTATONIC_LETTERS)}
      assigned == {p \in numbers : p[2] \in DOMAIN keys1}
  IN  [n \in (DOMAIN keys1) \cup {p[1] : p \in assigned} |->
         IF \E p \in assigned : p[1] = n
           THEN keys1[(CHOOSE p \in assigned : p[1] = n)[2]]
           ELSE keys1[n]]

\* track.keys[tone] as it would be if a tone without an entry were given
\* the first entry of the pool
KeyLookupWithDefault(tone) ==
  LET name == PropertyName(tone)
  IN  IF name \in DOMAIN PoolKeys THEN PoolKeys[name] ELSE 1

\* track.keys[tone]: the entry, or 0 for undefined
KeyLookup(tone) ==
  LET name == PropertyName(tone)
  IN  IF name \in DOMAIN PoolKeys THEN PoolKeys[name] ELSE 0

\* The gain parameters of a track's pool entries are kept as a map from
\* entry to parameter that leaves out the entries whose parameter is as
\* setup_track created it: value 0 ("start off muted"), nothing scheduled.
Silent == NewParam(0)

Entries == 1..NumEntries

Gain(track, e) == IF e \in DOMAIN track.keys THEN track.keys[e] ELSE Silent

StoreGain(track, e, p) ==
  LET dom == IF p = Silent THEN DOMAIN track.keys \ {e} ELSE DOMAIN track.keys \cup {e}
  IN  [track EXCEPT !.keys = [x \in dom |-> IF x = e THEN p ELSE track.keys[x]]]

\* a map from entry to parameter with the entries left out whose parameter
\* is as setup_track created it
Sparse(gains) == [e \in {x \in DOMAIN gains : gains[x] # Silent} |-> gains[e]]

\* the rendering thread on every pool entry of the track (an entry as
\* setup_track created it has nothing to render)
RenderTrack(track, now) ==
  [track EXCEPT !.keys = Sparse([e \in DOMAIN @ |-> Render(@[e], now)])]

\* reset_audio's loop over Object.keys(tr.keys): cancelScheduledValues(now)
\* and value = 0 on every entry (which leave an entry as setup_track
\* created it as it is)
CancelTrack(track, now) ==
  [track EXCEPT !.keys =
     Sparse([e \in DOMAIN @ |-> SetValue(cancelScheduledValues(@[e], now), 0, now)])]

\* the track object new_track creates and setup_track fills: its notes and
\* its pool, every entry with gain value 0
setup_track(track) == [track EXCEPT !.keys = [e \in {} |-> Silent]]

add_track(a, track) ==
  [a EXCEPT !._tracks_ = Append(@, track),
            !._track_states_ = Append(@, [next_note |-> 0, target_time |-> JSUndefined])]

\* new_track on the current player: returns the player with the track added
new_track(a) ==
  LET t0 == add_track(a, [notes |-> <<>>, keys |-> <<>>])
      n == Len(t0._tracks_)
  IN  [t0 EXCEPT !._tracks_[n] = setup_track(@)]

-----------------------------------------------------------------------------
(* add_note: resolving the duration and the tone *)

JSNaN == [type |-> "NaN", num |-> 0, str |-> <<>>]

\* the duration as it would be if the '.' were accepted and ignored
DottedUnchanged(dur) == dur

\* dur *= 1.5
TimesOneAndAHalf(dur) == IF IsNum(dur) THEN JSNum((dur.num * 3) \div 2) ELSE JSNaN

\* the duration part of add_note: [dur, warnings]
ResolveDuration(duration) ==
  IF ~IsStr(duration) THEN [dur |-> duration, warnings |-> <<>>]
  ELSE
    LET s == duration.str
        c == IF Len(s) > 0 THEN s[1] ELSE ""
        base ==
          IF c = "t" THEN JSNum(FULL_NOTE_LENGTH \div 32)
          ELSE IF c = "s" THEN JSNum(FULL_NOTE_LENGTH \div 16)
          ELSE IF c = "e" THEN JSNum(FULL_NOTE_LENGTH \div 8)
          ELSE IF c = "q" THEN JSNum(FULL_NOTE_LENGTH \div 4)
          ELSE IF c = "h" THEN JSNum(FULL_NOTE_LENGTH \div 2)
          ELSE IF c = "f" THEN JSNum(FULL_NOTE_LENGTH)
          ELSE duration
        w1 == IF c \in {"t", "s", "e", "q", "h", "f"} THEN <<>> ELSE <<"unknown duration value">>
    IN  IF Len(s) > 1
          THEN IF s[2] = "."
                 THEN [dur |-> TimesOneAndAHalf(base), warnings |-> w1]
                 ELSE [dur |-> base, warnings |-> w1 \o <<"unknown duration modifier">>]
          ELSE [dur |-> base, warnings |-> w1]

\* the tone part of add_note: flats are converted to sharps
ResolveTone(tone) ==
  IF IsStr(tone) /\ Len(tone.str) > 1 /\ tone.str[2] = "b"
    THEN
      LET letter == tone.str[1]
          rest == Slice(tone.str, 2)
          li0 == IndexOf(BASE_LETTERS, letter)
          li == IF li0 = 0 THEN Len(BASE_LETTERS) - 1 ELSE li0 - 1
          \* BASE_LETTERS[li] + '#'; an index outside the string gives "undefined#"
          alt_tone == IF li >= 0 /\ li < Len(BASE_LETTERS)
                        THEN <<BASE_LETTERS[li + 1], "#">>
                        ELSE <<"u", "n", "d", "e", "f", "i", "n", "e", "d", "#">>
      IN  IF IndexOf(TONE_LETTERS, alt_tone) >= 0
            THEN [tone |-> JSStr(alt_tone \o rest), warnings |-> <<>>]
            ELSE [tone |-> tone, warnings |-> <<"could not be converted to a sharp">>]
    ELSE [tone |-> tone, warnings |-> <<>>]

\* the Note add_note builds, and what it reports through console.warn
MakeNote(tone, duration) ==
  LET d == ResolveDuration(duration)
      t == ResolveTone(tone)
  IN  [note |-> [tone |-> t.tone, duration |-> d.dur],
       warnings |-> d.warnings \o t.warnings]

\* add_rest(duration)
add_rest_note(duration) == MakeNote(JSStr(<<"-">>), duration)

-----------------------------------------------------------------------------
(* track_duration *)

\* a digit sequence plus one in its last place
RECURSIVE PlusOne(_)
PlusOne(ds) ==
  IF ds = <<>> THEN <<"1">>
  ELSE IF ds[Len(ds)] = "9" THEN PlusOne(SubSeq(ds, 1, Len(ds) - 1)) \o <<"0">>
  ELSE SubSeq(ds, 1, Len(ds) - 1) \o Digits(IndexOf(Digits(123456789), ds[Len(ds)]) + 2)

\* the first k decimals of r / Seconds(1) for 0 <= r < Seconds(1), rounded
\* half up in the last place (the sequence is one longer when the rounding
\* carries into the units)
RECURSIVE Decimals(_, _)
Decimals(r, k) ==
  IF k = 0 THEN IF 2 * r >= Seconds(1) THEN <<"+">> ELSE <<>>
  ELSE The({ IF rest # <<>> /\ rest[Len(rest)] = "+"
               THEN IF d = 9 THEN SubSeq(rest, 1, Len(rest) - 1) \o <<"+">>
                    ELSE Digits(d + 1) \o [j \in 1..(Len(rest) - 1) |-> "0"]
               ELSE Digits(d) \o rest
             : d \in {(10 * r) \div Seconds(1)},
               rest \in {Decimals((10 * r) % Seconds(1), k - 1)} })

RECURSIVE StripZeros(_)
StripZeros(ds) ==
  IF ds # <<>> /\ ds[Len(ds)] = "0" THEN StripZeros(SubSeq(ds, 1, Len(ds) - 1)) ELSE ds

\* String(x) for a time x >= 0 kept as n units: the decimal text of the
\* seconds to 16 decimals (the last place of a floating-point number is not
\* modelled)
TextOfSeconds(n) ==
  The({ IF dec # <<>> /\ dec[Len(dec)] = "+"
          THEN Digits((n \div Seconds(1)) + 1)
          ELSE IF StripZeros(dec) = <<>> THEN Digits(n \div Seconds(1))
          ELSE Digits(n \div Seconds(1)) \o <<".">> \o StripZeros(dec)
        : dec \in {Decimals(n % Seconds(1), 16)} })

\* String(v) where v is a number of seconds, NaN, undefined or a string
ToText(v) ==
  IF IsStr(v) THEN v.str
  ELSE IF IsNum(v) THEN IF v.num < 0 THEN <<"-">> \o TextOfSeconds(0 - v.num)
                        ELSE TextOfSeconds(v.num)
  ELSE IF IsUndefined(v) THEN <<"u", "n", "d", "e", "f", "i", "n", "e", "d">>
  ELSE <<"N", "a", "N">>

\* a + b
JSPlus(a, b) ==
  IF IsNum(a) /\ IsNum(b) THEN JSNum(a.num + b.num)
  ELSE IF IsStr(a) \/ IsStr(b) THEN JSStr(ToText(a) \o ToText(b))
  ELSE JSNaN

\* the for loop of track_duration from note i on
RECURSIVE DurationFrom(_, _, _)
DurationFrom(notes, i, dur) ==
  IF i > Len(notes) THEN dur ELSE DurationFrom(notes, i + 1, JSPlus(dur, notes[i].duration))

\* track_duration(track)
track_duration(track) == DurationFrom(track.notes, 1, JSNum(0))

-----------------------------------------------------------------------------
(* The scheduler *)

\* the lookahead as schedule_audio uses it: 80 added to ctx.currentTime,
\* which is a time in seconds
Lookahead == Seconds(SCHEDULING_LOOKAHEAD)

\* the offset as it would be if it were counted from the start of the
\* context clock, not from when
OffsetFromZero(when, percent, duration) == (percent * duration) \div 100

\* when + fraction * note.duration, fraction in %
Offset(when, percent, duration) == when + (percent * duration) \div 100

\* schedule_note as it would be without its first line, the return for a rest
schedule_note_without_rest(track, note, when, now) ==
  LET key == KeyLookup(note.tone)
      numeric == IsNum(note.duration)
      d == note.duration.num
      t2 == Offset(when, ATTACK_TIME, d)
      t3 == Offset(when, ATTACK_TIME + SUSTAIN_TIME, d)
      t4 == when + d
      p0 == Gain(track, key)
      p1 == setValueAtTime(p0, 0, when, now)
      p2 == linearRampToValueAtTime(p1, 1, t2, now)
      p3 == setValueAtTime(p2, 1, t3, now)
      p4 == linearRampToValueAtTime(p3, 0, t4, now)
      With(p) == StoreGain(track, key, p)
  IN  IF key = 0 THEN [track |-> track, threw |-> "TypeError"]
      ELSE IF when < 0 THEN [track |-> track, threw |-> "RangeError"]
      ELSE IF ~numeric THEN [track |-> With(p1), threw |-> "TypeError"]
      ELSE IF t2 < 0 THEN [track |-> With(p1), threw |-> "RangeError"]
      ELSE IF t3 < 0 THEN [track |-> With(p2), threw |-> "RangeError"]
      ELSE IF t4 < 0 THEN [track |-> With(p3), threw |-> "RangeError"]
      ELSE [track |-> With(p4), threw |-> ""]

\* schedule_note(track, note, when) at clock time now: the track with the
\* gain events of the note queued, and what was thrown ("" for a return).
\* A call that throws leaves the events queued by the calls before it.
schedule_note(track, note, when, now) ==
  IF IsStr(note.tone) /\ note.tone.str = <<"-">> THEN [track |-> track, threw |-> ""]
  ELSE
    LET key == KeyLookup(note.tone)
        numeric == IsNum(note.duration)
        d == note.duration.num
        t2 == Offset(when, ATTACK_TIME, d)
        t3 == Offset(when, ATTACK_TIME + SUSTAIN_TIME, d)
        t4 == when + d
        p0 == Gain(track, key)
        p1 == setValueAtTime(p0, 0, when, now)
        p2 == linearRampToValueAtTime(p1, 1, t2, now)
        p3 == setValueAtTime(p2, 1, t3, now)
        p4 == linearRampToValueAtTime(p3, 0, t4, now)
        With(p) == StoreGain(track, key, p)
    IN  IF key = 0 THEN [track |-> track, threw |-> "TypeError"]
        ELSE IF when < 0 THEN [track |-> track, threw |-> "RangeError"]
        ELSE IF ~numeric THEN [track |-> With(p1), threw |-> "TypeError"]
        ELSE IF t2 < 0 THEN [track |-> With(p1), threw |-> "RangeError"]
        ELSE IF t3 < 0 THEN [track |-> With(p2), threw |-> "RangeError"]
        ELSE IF t4 < 0 THEN [track |-> With(p3), threw |-> "RangeError"]
        ELSE [track |-> With(p4), threw |-> ""]

\* Advance as it would be without the "% track.notes.length"
AdvanceWithoutWrap(state, note, length) ==
  [next_note |-> state.next_note + 1,
   target_time |-> IF IsNum(note.duration)
                     THEN JSNum(state.target_time.num + note.duration.num)
                     ELSE JSNaN]

\* Advance as it would be with "% (track.notes.length + 1)"
AdvanceWrappingLate(state, note, length) ==
  [next_note |-> (state.next_note + 1) % (length + 1),
   target_time |-> IF IsNum(note.duration)
                     THEN JSNum(state.target_time.num + note.duration.num)
                     ELSE JSNaN]

\* the track state after a note has been scheduled: the target time is
\* advanced by the note's duration, the cursor by one, wrapping
Advance(state, note, length) ==
  [next_note |-> (state.next_note + 1) % length,
   target_time |-> IF IsNum(note.duration)
                     THEN JSNum(state.target_time.num + note.duration.num)
                     ELSE JSNaN]

\* what the model records of a note the loop committed: its index and
\* duration, the time it was scheduled at, and the cursor after it
LogEntry(track, state, state2) ==
  [index |-> state.next_note, when |-> state.target_time.num,
   duration |-> track.notes[state.next_note + 1].duration,
   length |-> Len(track.notes), next |-> state2.next_note]

\* the while loop as it would be without "if (note == undefined) { break; }":
\* schedule_note then reads note.tone of undefined
RECURSIVE WhileLoopWithoutBreak(_, _, _, _, _)
WhileLoopWithoutBreak(track, state, now, log, fuel) ==
  LET done(outcome) == [track |-> track, state |-> state, log |-> log, outcome |-> outcome]
  IN  IF ~(IsNum(state.target_time) /\ state.target_time.num < now + Lookahead)
        THEN done("returned")
      ELSE IF state.next_note >= Len(track.notes)
        THEN done("TypeError")
      ELSE IF fuel = 0
        THEN done("hung")
      ELSE
        The({ IF r.threw # ""
                THEN [track |-> r.track, state |-> state, log |-> log, outcome |-> r.threw]
                ELSE WhileLoopWithoutBreak(r.track, state2, now, log2, fuel - 1)
              : r \in {schedule_note(track, track.notes[state.next_note + 1],
                                     state.target_time.num, now)},
                state2 \in {Advance(state, track.notes[state.next_note + 1],
                                    Len(track.notes))},
                log2 \in {Append(log, LogEntry(track, state,
                                               Advance(state, track.notes[state.next_note + 1],
                                                       Len(track.notes))))} })

\* the while loop as it would be if target_time and next_note were advanced
\* before schedule_note is called
RECURSIVE WhileLoopAdvancingFirst(_, _, _, _, _)
WhileLoopAdvancingFirst(track, state, now, log, fuel) ==
  LET done(outcome) == [track |-> track, state |-> state, log |-> log, outcome |-> outcome]
  IN  IF ~(IsNum(state.target_time) /\ state.target_time.num < now + Lookahead)
        THEN done("returned")
      ELSE IF state.next_note >= Len(track.notes)
        THEN done("returned")
      ELSE IF fuel = 0
        THEN done("hung")
      ELSE
        The({ IF r.threw # ""
                THEN [track |-> r.track, state |-> state2, log |-> log, outcome |-> r.threw]
                ELSE WhileLoopAdvancingFirst(r.track, state2, now, log2, fuel - 1)
              : r \in {schedule_note(track, track.notes[state.next_note + 1],
                                     state.target_time.num, now)},
                state2 \in {Advance(state, track.notes[state.next_note + 1],
                                    Len(track.notes))},
                log2 \in {Append(log, LogEntry(track, state,
                                               Advance(state, track.notes[state.next_note + 1],
                                                       Len(track.notes))))} })

\* the while loop of schedule_audio for one track.  log collects the notes
\* committed; fuel counts the iterations left before the loop is taken to
\* never exit (outcome "hung").
RECURSIVE WhileLoop(_, _, _, _, _)
WhileLoop(track, state, now, log, fuel) ==
  LET done(outcome) == [track |-> track, state |-> state, log |-> log, outcome |-> outcome]
  IN  IF ~(IsNum(state.target_time) /\ state.target_time.num < now + Lookahead)
        THEN done("returned")
      ELSE IF state.next_note >= Len(track.notes)
        THEN done("returned")                      \* note == undefined: break
      ELSE IF fuel = 0
        THEN done("hung")
      ELSE
        The({ IF r.threw # ""
                THEN [track |-> r.track, state |-> state, log |-> log, outcome |-> r.threw]
                ELSE WhileLoop(r.track, state2, now, log2, fuel - 1)
              : r \in {schedule_note(track, track.notes[state.next_note + 1],
                                     state.target_time.num, now)},
                state2 \in {Advance(state, track.notes[state.next_note + 1],
                                    Len(track.notes))},
                log2 \in {Append(log, LogEntry(track, state,
                                               Advance(state, track.notes[state.next_note + 1],
                                                       Len(track.notes))))} })

MaxLoop == 16

\* the for loop of schedule_audio from track i on: an exception or a loop
\* that never exits ends the whole call
RECURSIVE ForTracks(_, _, _, _)
ForTracks(a, i, now, logs) ==
  IF i > Len(a._tracks_) THEN [audio |-> a, logs |-> logs, outcome |-> "returned"]
  ELSE
    LET state0 == a._track_states_[i]
        state1 == IF IsUndefined(state0.target_time)
                    THEN [state0 EXCEPT !.target_time = JSNum(now)]
                    ELSE state0
    IN  The({ IF r.outcome = "returned"
                THEN ForTracks([a EXCEPT !._tracks_[i] = r.track, !._track_states_[i] = r.state],
                               i + 1, now, [logs EXCEPT ![i] = r.log])
                ELSE [audio |-> [a EXCEPT !._tracks_[i] = r.track, !._track_states_[i] = r.state],
                      logs |-> [logs EXCEPT ![i] = r.log],
                      outcome |-> r.outcome]
              : r \in {WhileLoop(a._tracks_[i], state1, now, <<>>, MaxLoop)} })

\* schedule_audio(audio): [audio, logs, outcome]
schedule_audio(a) ==
  The({ ForTracks(a0, 1, a0._ctx_.currentTime, [i \in 1..Len(a0._tracks_) |-> <<>>])
        : a0 \in {a} })

-----------------------------------------------------------------------------
(* Transport *)

\* setInterval: a handle that no active timer has
FreshHandle(a) == CHOOSE h \in 1..(Cardinality(a.intervals) + 1) : h \notin a.intervals

\* clearInterval(handle): nothing happens for undefined
clearInterval(a, handle) ==
  IF IsNum(handle) THEN [a EXCEPT !.intervals = @ \ {handle.num}] ELSE a

\* toggle_play as it would be if it ignored play and always swapped the state
TogglePlayIgnoringArgument(a, play) ==
  IF a._play_state_ # "playing"
    THEN LET h == FreshHandle(a)
         IN  [a EXCEPT !._ctx_.state = "running",
                       !._started_at_ = IF a._play_state_ = "stopped"
                                          THEN JSNum(a._ctx_.currentTime) ELSE @,
                       !.intervals = @ \cup {h},
                       !._scheduler_ = JSNum(h),
                       !._play_state_ = "playing"]
    ELSE [clearInterval(a, a._scheduler_) EXCEPT
                       !._ctx_.state = "suspended",
                       !._scheduler_ = JSUndefined,
                       !._play_state_ = "paused"]

\* toggle_play(audio, play) with play given as true or false
toggle_play(a, play) ==
  IF play
    THEN LET h == FreshHandle(a)
         IN  [a EXCEPT !._ctx_.state = "running",
                       !._started_at_ = IF a._play_state_ = "stopped"
                                          THEN JSNum(a._ctx_.currentTime) ELSE @,
                       !.intervals = @ \cup {h},
                       !._scheduler_ = JSNum(h),
                       !._play_state_ = "playing"]
    ELSE [clearInterval(a, a._scheduler_) EXCEPT
                       !._ctx_.state = "suspended",
                       !._scheduler_ = JSUndefined,
                       !._play_state_ = "paused"]

\* toggle_play(audio) with play omitted
toggle_play_swap(a) == toggle_play(a, a._play_state_ # "playing")

\* reset_audio as it would be without its loop over the keys of the tracks
ResetKeepingEvents(a) ==
  The({ [a1 EXCEPT
           !._play_state_ = "stopped",
           !.intervals = clearInterval(a1, a1._scheduler_).intervals,
           !._track_states_ = [i \in DOMAIN @ |-> [next_note |-> 0, target_time |-> JSUndefined]]]
        : a1 \in {toggle_play(a, FALSE)} })

\* reset_audio(audio)
reset_audio(a) ==
  The({ [a1 EXCEPT
           !._play_state_ = "stopped",
           !.intervals = clearInterval(a1, a1._scheduler_).intervals,
           !._track_states_ = [i \in DOMAIN @ |-> [next_note |-> 0, target_time |-> JSUndefined]],
           !._tracks_ = [i \in DOMAIN @ |-> CancelTrack(@[i], a1._ctx_.currentTime)]]
        : a1 \in {toggle_play(a, FALSE)} })

-----------------------------------------------------------------------------
(* Volume.  The master gain is the value of ctx._final_gain_.gain, in %;   *)
(* setValueAtTime(v, ctx.currentTime) on it takes effect at once.          *)

\* toggle_mute as it would be without the assignment to _unmute_vol_
MuteWithoutSnapshot(a, mute) ==
  IF mute
    THEN [a EXCEPT !._ctx_._final_gain_ = 0]
    ELSE [a EXCEPT !._ctx_._final_gain_ = a._unmute_vol_]

\* toggle_mute(audio, mute) with mute given as true or false
toggle_mute(a, mute) ==
  IF mute
    THEN [a EXCEPT !._unmute_vol_ = a._ctx_._final_gain_,
                   !._ctx_._final_gain_ = 0]
    ELSE [a EXCEPT !._ctx_._final_gain_ = a._unmute_vol_]

\* set_volume(audio, value, update_slider)
set_volume(a, value) == [a EXCEPT !._ctx_._final_gain_ = value]

\* new_audio(): the player, its context suspended, no tracks
new_audio ==
  [_tracks_ |-> <<>>,
   _track_states_ |-> <<>>,
   _ctx_ |-> [currentTime |-> 0, state |-> "suspended", _final_gain_ |-> 25],
   _unmute_vol_ |-> 25,
   _play_state_ |-> "stopped",
   _started_at_ |-> JSUndefined,
   _scheduler_ |-> JSUndefined,
   intervals |-> {}]

-----------------------------------------------------------------------------
(* Bounds of the model *)

MaxTracks == 2

MaxNotes == 2

MaxIntervals == 2

\* the clock is advanced up to this many seconds
MaxClock == 20

\* the time the clock advances between two handlers
ClockSteps == {Seconds(20)}

\* the volumes given to set_volume, in %
Volumes == {60}

\* the (tone, duration) pairs given to add_note
NoteInputs ==
  { <<JSStr(<<"A">>), JSNum(Seconds(20))>>,
    <<JSNum(1), JSNum(Seconds(40))>>,
    <<JSStr(<<"A">>), JSNum(0 - Seconds(20))>>,
    <<JSStr(<<"H">>), JSNum(Seconds(20))>>,
    <<JSStr(<<"-">>), JSNum(0)>> }

\* the pairs given to add_note where the volume handlers are checked
PlainInputs == { <<JSStr(<<"A">>), JSNum(Seconds(20))>> }

-----------------------------------------------------------------------------
(* History bookkeeping *)

NoCall == [tone |-> JSUndefined, duration |-> JSUndefined, track |-> 0,
           note |-> [tone |-> JSUndefined, duration |-> JSUndefined], warnings |-> <<>>]

\* no volume call yet: the volume is the one new_audio gives the player
NoVolume == [op |-> "none", last |-> new_audio._ctx_._final_gain_]

NoTick == [now |-> 0, outcome |-> "none", logs |-> <<>>]

NoSched == [T0 |-> JSUndefined, count |-> 0, sum |-> 0, last |-> <<>>,
            len0 |-> 0, grown |-> FALSE]

DurationOf(entry) == IF IsNum(entry.duration) THEN entry.duration.num ELSE 0

\* the commits of one track in a tick, numbered from the initialisation of
\* target_time on; s is the track's bookkeeping before the tick
RECURSIVE Numbered(_, _, _)
Numbered(log, s, j) ==
  IF j > Len(log) THEN <<>>
  ELSE <<[index |-> log[j].index, when |-> log[j].when, duration |-> log[j].duration,
          length |-> log[j].length, next |-> log[j].next, prior |-> FALSE,
          T0 |-> s.T0.num, k |-> s.count, sum |-> s.sum,
          len0 |-> s.len0, grown |-> s.grown]>>
       \o Numbered(log, [s EXCEPT !.count = @ + 1, !.sum = @ + DurationOf(log[j])], j + 1)

\* the bookkeeping of track i when a tick at clock time now begins
SchedAtTick(a, i, now) ==
  IF IsUndefined(a._track_states_[i].target_time)
    THEN [NoSched EXCEPT !.T0 = JSNum(now), !.len0 = Len(a._tracks_[i].notes)]
    ELSE sched[i]

AsPrior(entries) == [j \in 1..Len(entries) |-> [entries[j] EXCEPT !.prior = TRUE]]

-----------------------------------------------------------------------------
(* The handlers *)

Init ==
  /\ audio = new_audio
  /\ CURRENT_TRACK = JSUndefined
  /\ hung = FALSE
  /\ tick = NoTick
  /\ sched = <<>>
  /\ after_play = [phase |-> "idle", first |-> <<>>, cancelled |-> FALSE]
  /\ owner = 0
  /\ older = <<>>
  /\ call = NoCall
  /\ vol = NoVolume

\* get_track(): the player with the current track, created when undefined
WithTrack(a, ct) == IF IsUndefined(ct) THEN new_track(a) ELSE a

TrackIndex(a, ct) == IF IsUndefined(ct) THEN Len(a._tracks_) + 1 ELSE ct.num

\* the history variables when a track has been appended
Extended(seq, n, x) == IF Len(seq) < n THEN Append(seq, x) ELSE seq

RECURSIVE SumLen(_, _)
SumLen(tracks, i) == IF i > Len(tracks) THEN 0 ELSE Len(tracks[i].notes) + SumLen(tracks, i + 1)

TotalNotes(a) == SumLen(a._tracks_, 1)

\* add_note(tone, duration) as it would be with ct.notes.unshift(note)
add_note_in_front(a, ct, tone, duration) ==
  LET n == TrackIndex(a, ct)
  IN  [WithTrack(a, ct) EXCEPT !._tracks_[n].notes = <<MakeNote(tone, duration).note>> \o @]

\* add_note(tone, duration)
add_note(a, ct, tone, duration) ==
  LET n == TrackIndex(a, ct)
  IN  [WithTrack(a, ct) EXCEPT !._tracks_[n].notes = Append(@, MakeNote(tone, duration).note)]

\* the number of the player CURRENT_AUDIO
CurrentPlayer == Len(older) + 1

\* add_note(tone, duration) for one of the given (tone, duration) pairs, on
\* a player that holds fewer than max notes.  ct.notes.push(note) acts on
\* the track CURRENT_TRACK refers to, whichever player holds it.
AddNoteUpTo(inputs, max) ==
  \E input \in inputs :
    LET n == TrackIndex(audio, CURRENT_TRACK)
        made == MakeNote(input[1], input[2])
    IN  /\ ~hung
        /\ call' = [tone |-> input[1], duration |-> input[2], track |-> n,
                    note |-> made.note, warnings |-> made.warnings]
        /\ tick' = NoTick
        /\ IF IsUndefined(CURRENT_TRACK) \/ owner = CurrentPlayer
             THEN /\ n <= MaxTracks
                  /\ TotalNotes(audio) < max
                  /\ audio' = add_note(audio, CURRENT_TRACK, input[1], input[2])
                  /\ CURRENT_TRACK' = JSNum(n)
                  /\ owner' = CurrentPlayer
                  /\ sched' = [i \in 1..Len(audio'._tracks_) |->
                                 IF i > Len(sched) THEN NoSched
                                 ELSE IF i = n THEN [sched[i] EXCEPT !.grown = @ \/ ~IsUndefined(sched[i].T0)]
                                 ELSE sched[i]]
                  /\ after_play' = [after_play EXCEPT !.first = Extended(@, n, -1)]
                  /\ UNCHANGED <<hung, older, vol>>
             ELSE /\ TotalNotes(older[owner]) < max
                  /\ older' = [older EXCEPT ![owner]._tracks_[n].notes = Append(@, made.note)]
                  /\ UNCHANGED <<audio, CURRENT_TRACK, owner, hung, sched, after_play, vol>>

AddNoteFrom(inputs) == AddNoteUpTo(inputs, MaxNotes)

AddNote == AddNoteFrom(NoteInputs)

AddPlainNote == AddNoteFrom(PlainInputs)

NewTrack ==
  /\ ~hung
  /\ Len(audio._tracks_) < MaxTracks
  /\ audio' = new_track(audio)
  /\ CURRENT_TRACK' = JSNum(Len(audio._tracks_) + 1)
  /\ sched' = Append(sched, NoSched)
  /\ after_play' = [after_play EXCEPT !.first = Append(@, -1)]
  /\ tick' = NoTick
  /\ owner' = CurrentPlayer
  /\ UNCHANGED <<hung, older, call, vol>>

ArmedBy(a) ==
  IF after_play.phase = "reset" /\ a._play_state_ = "stopped"
    THEN [after_play EXCEPT !.phase = "armed"]
    ELSE after_play

\* toggle_play(audio, true)
Play ==
  /\ ~hung
  /\ Cardinality(audio.intervals) < MaxIntervals
  /\ audio' = toggle_play(audio, TRUE)
  /\ after_play' = ArmedBy(audio)
  /\ tick' = NoTick
  /\ UNCHANGED <<CURRENT_TRACK, owner, older, hung, sched, call, vol>>

\* toggle_play(audio, false)
Pause ==
  /\ ~hung
  /\ audio' = toggle_play(audio, FALSE)
  /\ tick' = NoTick
  /\ UNCHANGED <<CURRENT_TRACK, owner, older, hung, sched, after_play, call, vol>>

\* toggle_play(audio): the play/pause button
TogglePlay ==
  /\ ~hung
  /\ audio._play_state_ # "playing" => Cardinality(audio.intervals) < MaxIntervals
  /\ audio' = toggle_play_swap(audio)
  /\ after_play' = IF audio._play_state_ # "playing" THEN ArmedBy(audio) ELSE after_play
  /\ tick' = NoTick
  /\ UNCHANGED <<CURRENT_TRACK, owner, older, hung, sched, call, vol>>

\* the events queued before a reset are marked as such
MarkPre(a) ==
  [a EXCEPT !._tracks_ = [i \in DOMAIN @ |->
     [@[i] EXCEPT !.keys = [e \in DOMAIN @ |->
        [@[e] EXCEPT !.events = [j \in DOMAIN @ |-> [@[j] EXCEPT !.pre = TRUE]]]]]]]

\* reset_audio(audio): the rewind button
ResetAudio ==
  /\ ~hung
  /\ \E marked \in {MarkPre(audio)} : audio' = reset_audio(marked)
  /\ sched' = [i \in DOMAIN sched |-> NoSched]
  /\ after_play' = [phase |-> "reset", first |-> [i \in DOMAIN after_play.first |-> -1],
                    cancelled |-> \E i \in DOMAIN audio._tracks_ : \E e \in Entries :
                                    Gain(audio._tracks_[i], e).events # <<>>]
  /\ tick' = NoTick
  /\ UNCHANGED <<CURRENT_TRACK, owner, older, hung, call, vol>>

\* toggle_mute(audio, mute)
ToggleMute ==
  \E mute \in BOOLEAN :
    /\ ~hung
    /\ audio' = toggle_mute(audio, mute)
    /\ vol' = [vol EXCEPT !.op = IF mute THEN "mute" ELSE "unmute"]
    /\ tick' = NoTick
  /\ UNCHANGED <<CURRENT_TRACK, owner, older, hung, sched, after_play, call>>

\* set_volume(audio, value): the volume slider
SetVolume ==
  \E value \in Volumes :
    /\ ~hung
    /\ audio' = set_volume(audio, value)
    /\ vol' = [op |-> "set", last |-> value]
    /\ tick' = NoTick
  /\ UNCHANGED <<CURRENT_TRACK, owner, older, hung, sched, after_play, call>>

\* a timer started by setInterval fires: schedule_audio(audio)
Tick ==
  /\ ~hung
  /\ audio.intervals # {}
  /\ \E r \in {schedule_audio(audio)} :
       LET now == audio._ctx_.currentTime
           n == Len(audio._tracks_)
           \* the tracks the for loop reached
           reached(i) == ~IsUndefined(r.audio._track_states_[i].target_time)
       IN  IF r.outcome = "hung"
             THEN /\ hung' = TRUE
                  /\ tick' = [now |-> now, outcome |-> "hung", logs |-> [i \in 1..n |-> <<>>]]
                  /\ UNCHANGED <<audio, CURRENT_TRACK, owner, older, sched, after_play, call, vol>>
             ELSE \E new \in {[i \in 1..n |-> Numbered(r.logs[i], SchedAtTick(audio, i, now), 1)]} :
                  /\ audio' = r.audio
                  /\ tick' = [now |-> now, outcome |-> r.outcome,
                              logs |-> [i \in 1..n |-> AsPrior(sched[i].last) \o new[i]]]
                  /\ sched' = [i \in 1..n |->
                       IF ~reached(i) THEN sched[i]
                       ELSE [SchedAtTick(audio, i, now) EXCEPT
                               !.count = @ + Len(new[i]),
                               !.sum = IF new[i] = <<>> THEN @
                                       ELSE new[i][Len(new[i])].sum + DurationOf(new[i][Len(new[i])]),
                               !.last = IF new[i] = <<>> THEN @ ELSE <<new[i][Len(new[i])]>>]]
                  /\ after_play' =
                       IF after_play.phase # "armed" THEN after_play
                       ELSE [after_play EXCEPT !.first = [i \in 1..n |->
                               IF @[i] = -1 /\ new[i] # <<>> THEN new[i][1].index ELSE @[i]]]
                  /\ UNCHANGED <<CURRENT_TRACK, owner, older, hung, call, vol>>

\* the audio clock runs while the context is running; the rendering thread
\* applies the events the clock reaches
AdvanceClock ==
  \E d \in ClockSteps :
    /\ ~hung
    /\ audio._ctx_.state = "running"
    /\ audio._ctx_.currentTime + d <= Seconds(MaxClock)
    /\ audio' = [audio EXCEPT
         !._ctx_.currentTime = @ + d,
         !._tracks_ = [i \in DOMAIN @ |-> RenderTrack(@[i], audio._ctx_.currentTime + d)]]
    /\ tick' = NoTick
  /\ UNCHANGED <<CURRENT_TRACK, owner, older, hung, sched, after_play, call, vol>>

Next ==
  \/ AddNote
  \/ NewTrack
  \/ Play
  \/ Pause
  \/ TogglePlay
  \/ ResetAudio
  \/ Tick
  \/ AdvanceClock

\* the authoring, transport and scheduling handlers
Spec == Init /\ [][Next]_vars

NextVolume ==
  \/ AddPlainNote
  \/ NewTrack
  \/ Play
  \/ Pause
  \/ TogglePlay
  \/ ResetAudio
  \/ Tick
  \/ AdvanceClock
  \/ ToggleMute
  \/ SetVolume

\* the volume handlers beside the others.  They write the master gain and
\* _unmute_vol_ only, which no other handler reads, so they are explored
\* with the plain notes.
SpecVolume == Init /\ [][NextVolume]_vars

\* the notes a player holds where the tone specifiers are checked
MaxTones == 1

\* the tone specifiers given to add_note: every letter A..G, plain, sharp or
\* flat, with every octave suffix; a letter that is no tone; and the numbers
\* around the pentatonic range
ToneInputs ==
  {JSStr(<<BASE_LETTERS[l]>> \o acc \o OCTAVES[o]) :
     l \in 1..Len(BASE_LETTERS), acc \in {<<>>, <<"#">>, <<"b">>}, o \in 1..Len(OCTAVES)}
    \cup {JSStr(<<"H">>)}
    \cup {JSNum(n) : n \in (0 - 11)..15}

\* add_note(tone, 20) for one of the tone specifiers
AddTone == AddNoteUpTo({<<tone, JSNum(Seconds(20))>> : tone \in ToneInputs}, MaxTones)

NextTones ==
  \/ AddTone
  \/ NewTrack
  \/ Play
  \/ Tick
  \/ AdvanceClock

\* the tone specifiers of add_note, and the scheduler on the notes they give
SpecTones == Init /\ [][NextTones]_vars

\* the notes a player holds where the durations are checked
MaxScore == 3

\* the duration specifiers given to add_note: every letter, plain and
\* dotted; an unknown letter, plain and dotted; an unknown modifier; the
\* empty string; and a number of seconds
DurationInputs ==
  {JSStr(<<c>> \o dot) : c \in {"t", "s", "e", "q", "h", "f", "x"}, dot \in {<<>>, <<".">>}}
    \cup {JSStr(<<"q", "x">>), JSStr(<<>>), JSNum(Seconds(20))}

\* add_note('A', duration) for every duration specifier, or add_note('C',
\* 'q') or add_note('C', 'h')
AddScoreNote ==
  AddNoteUpTo({<<JSStr(<<"A">>), d>> : d \in DurationInputs}
                \cup {<<JSStr(<<"C">>), JSStr(<<c>>)>> : c \in {"q", "h"}}, MaxScore)

\* add_rest(duration): add_note('-', duration)
AddRest ==
  AddNoteUpTo({<<add_rest_note(JSStr(d)).note.tone, JSStr(d)>> : d \in {<<"q">>, <<"h", ".">>}}, MaxScore)

NextDurations ==
  \/ AddScoreNote
  \/ AddRest
  \/ NewTrack

\* the duration specifiers of add_note and add_rest, and track_duration on
\* the tracks they build
SpecDurations == Init /\ [][NextDurations]_vars

\* the players created where the current player and track are checked
MaxPlayers == 2

\* select_track(n): CURRENT_TRACK = get_audio()._tracks_[n], which is
\* undefined for an index outside the array
select_track(a, n) == IF n \in 0..(Len(a._tracks_) - 1) THEN JSNum(n + 1) ELSE JSUndefined

\* new_audio() as it would be without its assignment to CURRENT_TRACK
NewAudioKeepingTrack ==
  /\ ~hung
  /\ CurrentPlayer < MaxPlayers
  /\ older' = Append(older, audio)
  /\ audio' = new_audio
  /\ sched' = <<>>
  /\ after_play' = [phase |-> "idle", first |-> <<>>, cancelled |-> FALSE]
  /\ tick' = NoTick
  /\ vol' = NoVolume
  /\ UNCHANGED <<CURRENT_TRACK, owner, hung, call>>

\* new_audio(): a new player becomes CURRENT_AUDIO; the players created
\* before stay on the page
NewAudio ==
  /\ ~hung
  /\ CurrentPlayer < MaxPlayers
  /\ older' = Append(older, audio)
  /\ audio' = new_audio
  /\ CURRENT_TRACK' = JSUndefined
  /\ owner' = 0
  /\ sched' = <<>>
  /\ after_play' = [phase |-> "idle", first |-> <<>>, cancelled |-> FALSE]
  /\ tick' = NoTick
  /\ vol' = NoVolume
  /\ UNCHANGED <<hung, call>>

\* select_track(n)
SelectTrack ==
  \E n \in (0 - 1)..MaxTracks :
    /\ ~hung
    /\ CURRENT_TRACK' = select_track(audio, n)
    /\ owner' = IF IsUndefined(CURRENT_TRACK') THEN 0 ELSE CurrentPlayer
    /\ tick' = NoTick
    /\ UNCHANGED <<audio, older, hung, sched, after_play, call, vol>>

\* add_rest(20)
AddPlainRest == AddNoteFrom({<<add_rest_note(d).note.tone, d>> : d \in {JSNum(Seconds(20))}})

NextPlayers ==
  \/ NewAudio
  \/ SelectTrack
  \/ NewTrack
  \/ AddPlainNote
  \/ AddPlainRest

\* the calls that create players and tracks, choose the current track and
\* add notes to it
SpecPlayers == Init /\ [][NextPlayers]_vars

\* the notes given to add_note and add_rest where rests are checked
RestInputs ==
  { <<JSStr(<<"A">>), JSNum(Seconds(20))>>,
    <<add_rest_note(JSNum(Seconds(20))).note.tone, JSNum(Seconds(20))>>,
    <<add_rest_note(JSNum(Seconds(40))).note.tone, JSNum(Seconds(40))>> }

\* add_note('A', 20), add_rest(20) or add_rest(40)
AddNoteOrRest == AddNoteFrom(RestInputs)

NextRests ==
  \/ AddNoteOrRest
  \/ NewTrack
  \/ Play
  \/ ResetAudio
  \/ Tick
  \/ AdvanceClock

\* the scheduler on tracks with rests
SpecRests == Init /\ [][NextRests]_vars

\* reset(), which the run button calls before every run: the container is
\* emptied and CURRENT_AUDIO and CURRENT_TRACK are set to undefined.  The
\* player held as CURRENT_AUDIO from then on is the one get_audio() creates
\* at the next call that needs a player; the players created before keep
\* their context and their timers.
Reset ==
  /\ ~hung
  /\ CurrentPlayer < MaxPlayers
  /\ older' = Append(older, audio)
  /\ audio' = new_audio
  /\ CURRENT_TRACK' = JSUndefined
  /\ owner' = 0
  /\ sched' = <<>>
  /\ after_play' = [phase |-> "idle", first |-> <<>>, cancelled |-> FALSE]
  /\ tick' = NoTick
  /\ vol' = NoVolume
  /\ UNCHANGED <<hung, call>>

\* a timer of a player created earlier fires: schedule_audio(audio) on the
\* player the timer was started for
OlderTick ==
  \E p \in DOMAIN older :
    /\ ~hung
    /\ older[p].intervals # {}
    /\ \E r \in {schedule_audio(older[p])} :
         /\ r.outcome # "hung"
         /\ older' = [older EXCEPT ![p] = r.audio]
    /\ tick' = NoTick
    /\ UNCHANGED <<audio, CURRENT_TRACK, owner, hung, sched, after_play, call, vol>>

NextReset ==
  \/ AddPlainNote
  \/ NewTrack
  \/ Play
  \/ Pause
  \/ Tick
  \/ Reset
  \/ OlderTick

\* runs of the page: players are built and played, and the run button
\* resets the page
SpecReset == Init /\ [][NextReset]_vars

-----------------------------------------------------------------------------
(* Properties *)

\* the commits of the latest tick on track i, the commit before them first
LogOf(i) == tick.logs[i]

\* the commits the latest tick made itself on track i
NewCommits(i) == {j \in 1..Len(LogOf(i)) : ~LogOf(i)[j].prior}

Tracks == 1..Len(audio._tracks_)

TickRan == tick.outcome \notin {"none", "hung"}

\* C1: on every track, with no reset in between, each committed note is the
\* one at the cursor position after the note committed before it, (k + 1)
\* mod length, and starts no earlier than that note
CommitsInCursorOrderAndTime ==
  TickRan =>
    \A i \in DOMAIN tick.logs : \A j \in 1..(Len(LogOf(i)) - 1) :
      /\ LogOf(i)[j + 1].index = (LogOf(i)[j].index + 1) % LogOf(i)[j].length
      /\ LogOf(i)[j + 1].when >= LogOf(i)[j].when

\* C2: every note a tick at clock time now commits starts before now plus
\* 80 milliseconds, and when the tick returns every track with notes has
\* target_time >= now + 80 ms
CommitsWithinLookaheadMillis ==
  TickRan =>
    \A i \in DOMAIN tick.logs :
      /\ \A j \in NewCommits(i) : LogOf(i)[j].when < tick.now + Millis(SCHEDULING_LOOKAHEAD)
      /\ (tick.outcome = "returned" /\ audio._tracks_[i].notes # <<>>) =>
            /\ IsNum(audio._track_states_[i].target_time)
            /\ audio._track_states_[i].target_time.num >= tick.now + Millis(SCHEDULING_LOOKAHEAD)

\* C3: the k-th note committed since target_time was initialised to T starts
\* at T plus the durations of the k notes committed before it, and on a
\* track of n notes the cursor is at k mod n after k commits, so back at
\* index 0 after exactly n
StartTimesAreSumsAndCursorWraps ==
  TickRan =>
    \A i \in DOMAIN tick.logs : \A j \in NewCommits(i) :
      /\ LogOf(i)[j].when = LogOf(i)[j].T0 + LogOf(i)[j].sum
      /\ ~LogOf(i)[j].grown =>
           /\ LogOf(i)[j].index = LogOf(i)[j].k % LogOf(i)[j].len0
           /\ LogOf(i)[j].next = (LogOf(i)[j].k + 1) % LogOf(i)[j].len0
           /\ (LogOf(i)[j].k + 1 = LogOf(i)[j].len0 => LogOf(i)[j].next = 0)

\* a tick has committed the second note of a track of two notes, at a time
\* later than T, and the cursor is back at 0
SecondOfTwoNotesCommitted ==
  /\ TickRan
  /\ \E i \in DOMAIN tick.logs : \E j \in NewCommits(i) :
       /\ LogOf(i)[j].len0 = 2 /\ ~LogOf(i)[j].grown
       /\ LogOf(i)[j].k = 1 /\ LogOf(i)[j].sum > 0
       /\ LogOf(i)[j].next = 0

AllowedTransitions ==
  { <<"stopped", "playing">>, <<"playing", "paused">>, <<"paused", "playing">>,
    <<"playing", "stopped">>, <<"paused", "stopped">> }

\* C4: every change of _play_state_ is stopped->playing, playing->paused,
\* paused->playing, playing->stopped or paused->stopped
OnlyAllowedPlayStateChanges ==
  [][audio'._play_state_ # audio._play_state_ =>
       <<audio._play_state_, audio'._play_state_>> \in AllowedTransitions]_vars

\* C5: the player has exactly one active scheduler timer when it is playing
\* and none when it is paused or stopped
OneTimerIffPlaying ==
  Cardinality(audio.intervals) = IF audio._play_state_ = "playing" THEN 1 ELSE 0

\* reset_audio leaves the player stopped, every track state at next_note 0
\* with target_time unset
ResetPostState(a) ==
  /\ a._play_state_ = "stopped"
  /\ \A i \in DOMAIN a._track_states_ :
       a._track_states_[i] = [next_note |-> 0, target_time |-> JSUndefined]

\* C6: reset_audio from any reachable state leaves the player stopped with
\* every track state at next_note 0 and target_time unset, and the first
\* note committed on a track after the next play is its note at index 0
ResetRewindsToFirstNote ==
  /\ ResetPostState(reset_audio(audio))
  /\ \A i \in DOMAIN after_play.first : after_play.first[i] \in {-1, 0}

\* every pool entry of every track has no pending event and level 0
AllSilent(a) ==
  \A i \in DOMAIN a._tracks_ : \A e \in Entries : Gain(a._tracks_[i], e) = Silent

\* C7: right after reset_audio every pool entry of every track has no
\* pending envelope event and level 0, and no event committed before a
\* reset is pending (so none is applied) in any later state
ResetCancelsPendingEvents ==
  /\ AllSilent(reset_audio(audio))
  /\ \A i \in Tracks : \A e \in DOMAIN audio._tracks_[i].keys :
       \A j \in DOMAIN audio._tracks_[i].keys[e].events :
         ~audio._tracks_[i].keys[e].events[j].pre

\* the player was reset while envelope events were pending, was started
\* again, and a tick has committed notes anew, whose events are pending
PlayedOnAfterCancellingReset ==
  /\ after_play.phase = "armed"
  /\ after_play.cancelled
  /\ \E i \in Tracks :
       /\ after_play.first[i] = 0
       /\ DOMAIN audio._tracks_[i].keys # {}

\* C8: reset_audio twice in a row leaves the player as reset_audio once does
ResetIsIdempotent ==
  reset_audio(reset_audio(audio)) = reset_audio(audio)

\* reset_audio has just acted on a player that was playing notes: events
\* were cancelled, and the player is stopped with its tracks and notes
JustResetWithNotes ==
  /\ after_play.phase = "reset"
  /\ after_play.cancelled
  /\ audio._play_state_ = "stopped"
  /\ audio = reset_audio(audio)
  /\ \E i \in Tracks : audio._tracks_[i].notes # <<>>

\* what pause and resume must keep: the origin time, the clock, and of the
\* tracks the player has, the cursor state and the pending envelope events
TimelineKept ==
  /\ audio'._started_at_ = audio._started_at_
  /\ audio'._ctx_.currentTime = audio._ctx_.currentTime
  /\ \A i \in Tracks :
       /\ audio'._track_states_[i] = audio._track_states_[i]
       /\ audio'._tracks_[i].keys = audio._tracks_[i].keys

\* C9: from the pause of a playing player to its resume, _started_at_, every
\* track's next_note and target_time, the committed envelope events and the
\* clock stay as they are, and no tick runs
PauseResumeKeepsTimeline ==
  [][(/\ audio._play_state_ \in {"playing", "paused"}
      /\ audio'._play_state_ \in {"playing", "paused"}
      /\ "paused" \in {audio._play_state_, audio'._play_state_})
     => (TimelineKept /\ tick'.outcome = "none")]_vars

\* what the volume handlers leave alone
Unmastered(a) == [a EXCEPT !._ctx_._final_gain_ = 0, !._unmute_vol_ = 0]

\* C10: from master gain v, toggle_mute(audio, true) sets the master gain to
\* 0 and _unmute_vol_ to v, toggle_mute(audio, false) after it sets the
\* master gain to v again, and neither changes anything else of the player
MuteThenUnmuteRestores ==
  \A m \in {toggle_mute(audio, TRUE)} : \A u \in {toggle_mute(m, FALSE)} :
    /\ m._ctx_._final_gain_ = 0
    /\ m._unmute_vol_ = audio._ctx_._final_gain_
    /\ u._ctx_._final_gain_ = audio._ctx_._final_gain_
    /\ Unmastered(m) = Unmastered(audio)
    /\ Unmastered(u) = Unmastered(audio)

\* the player was muted from a volume set with the slider while envelope
\* events were pending, and then unmuted
MutedAndUnmutedWhilePlaying ==
  /\ audio._ctx_._final_gain_ \in Volumes
  /\ audio._unmute_vol_ = audio._ctx_._final_gain_
  /\ audio._play_state_ = "playing"
  /\ \E i \in Tracks : DOMAIN audio._tracks_[i].keys # {}

\* track j is as new_track or reset_audio leaves a track: cursor at 0,
\* target_time unset, nothing pending on its keys
Unscheduled(j) ==
  /\ audio._track_states_[j] = [next_note |-> 0, target_time |-> JSUndefined]
  /\ DOMAIN audio._tracks_[j].keys = {}

\* the player as it would be had track j been given the one note instead
WithOtherNotes(j, input) ==
  [audio EXCEPT !._tracks_[j].notes = <<MakeNote(input[1], input[2]).note>>]

\* C11: a tick on two players that differ only in the notes of track j
\* leaves every other track i with the same committed events, next_note
\* and target_time
TracksScheduledIndependently ==
  audio.intervals # {} =>
    \A r1 \in {schedule_audio(audio)} :
      \A j \in Tracks : \A input \in NoteInputs :
        Unscheduled(j) =>
          \A r2 \in {schedule_audio(WithOtherNotes(j, input))} :
            \A i \in Tracks \ {j} :
              /\ r2.audio._tracks_[i].keys = r1.audio._tracks_[i].keys
              /\ r2.audio._track_states_[i] = r1.audio._track_states_[i]

\* the note is not a rest and its tone is no property of track.keys
MissingKey(note) ==
  /\ ~(IsStr(note.tone) /\ note.tone.str = <<"-">>)
  /\ PropertyName(note.tone) \notin DOMAIN PoolKeys

\* the while loop of schedule_audio would go on with track i, and the note
\* at its cursor has no entry in the pool
AtMissingKey(i) ==
  /\ audio._track_states_[i].next_note < Len(audio._tracks_[i].notes)
  /\ IsNum(audio._track_states_[i].target_time)
  /\ audio._track_states_[i].target_time.num < tick.now + Lookahead
  /\ MissingKey(audio._tracks_[i].notes[audio._track_states_[i].next_note + 1])

\* C12: a tick that reaches a note whose tone has no entry in the pool does
\* not return normally and does not move past the note (it throws a
\* TypeError, which the timer reports), and scheduling such a note commits
\* no envelope event
LookupFailureEndsThePass ==
  /\ TickRan =>
       /\ \A i \in DOMAIN tick.logs : \A j \in NewCommits(i) :
            ~MissingKey(audio._tracks_[i].notes[LogOf(i)[j].index + 1])
       /\ \A i \in DOMAIN tick.logs :
            AtMissingKey(i) => tick.outcome \in {"TypeError", "RangeError"}
       /\ (\E i \in DOMAIN tick.logs :
             /\ AtMissingKey(i)
             /\ \A k \in 1..(i - 1) :
                  /\ ~AtMissingKey(k)
                  /\ \A n \in DOMAIN audio._tracks_[k].notes :
                       audio._tracks_[k].notes[n].duration.num > 0)
            => tick.outcome = "TypeError"
  /\ \A i \in Tracks : \A n \in DOMAIN audio._tracks_[i].notes :
       MissingKey(audio._tracks_[i].notes[n]) =>
         schedule_note(audio._tracks_[i], audio._tracks_[i].notes[n],
                       audio._ctx_.currentTime, audio._ctx_.currentTime)
           = [track |-> audio._tracks_[i], threw |-> "TypeError"]

\* a tick committed a note of a track and then reached the next note of the
\* track, whose tone has no entry, and threw
TickThrewAtMissingKey ==
  /\ tick.outcome = "TypeError"
  /\ \E i \in DOMAIN tick.logs : AtMissingKey(i) /\ NewCommits(i) # {}

\* C13: every tone stored in a note, other than the rest marker, is a key of
\* the pool, and no tick fails to find the entry of a note
StoredTonesAreKeys ==
  /\ \A i \in Tracks : \A n \in DOMAIN audio._tracks_[i].notes :
       ~MissingKey(audio._tracks_[i].notes[n])
  /\ tick.outcome # "TypeError"

\* the tone specifier is a letter A..G followed by 'b' and an octave suffix
IsFlat(tone) ==
  /\ IsStr(tone)
  /\ Len(tone.str) > 1
  /\ IndexOf(BASE_LETTERS, tone.str[1]) >= 0
  /\ tone.str[2] = "b"
  /\ \E o \in DOMAIN OCTAVES : Slice(tone.str, 2) = OCTAVES[o]

\* C14: add_note stores for 'Eb'+s the tone it stores for 'D#'+s, for 'Cb'+s
\* the tone 'B'+s, and for every flat a tone that is a key of the pool
FlatsAreNormalised ==
  IsFlat(call.tone) =>
    /\ call.tone.str[1] = "E" =>
         call.note.tone = MakeNote(JSStr(<<"D", "#">> \o Slice(call.tone.str, 2)), call.duration).note.tone
    /\ call.tone.str[1] = "C" =>
         call.note.tone = JSStr(<<"B">> \o Slice(call.tone.str, 2))
    /\ PropertyName(call.note.tone) \in DOMAIN PoolKeys

\* the keys of the pool that are numbers
NumericKeys ==
  {name \in DOMAIN PoolKeys :
     name # <<>> /\ name[1] \in {"-", "0", "1", "2", "3", "4", "5", "6", "7", "8", "9"}}

\* the letter key the spec gives for the pentatonic number n
LetterKeyOf(n) == PENTATONIC_LETTERS[(n % 5) + 1] \o OCTAVES[(n \div 5) + 2 + 1]

\* C15: every number n in -10..14 is a key of the pool for the entry of the
\* letter key PENTATONIC_LETTERS[n mod 5] + OCTAVES[floor(n/5) + 2], the
\* numeric keys are exactly these 25, and a note stored with the number n
\* is scheduled on that entry
NumericKeysAliasLetterKeys ==
  /\ \A n \in (0 - 10)..14 :
       /\ NumberToString(n) \in DOMAIN PoolKeys
       /\ LetterKeyOf(n) \in DOMAIN PoolKeys
       /\ PoolKeys[NumberToString(n)] = PoolKeys[LetterKeyOf(n)]
  /\ NumericKeys = {NumberToString(n) : n \in (0 - 10)..14}
  /\ Cardinality(NumericKeys) = 25
  /\ PoolKeys[NumberToString(0)] = PoolKeys[<<"A">>]
  /\ PoolKeys[NumberToString(0 - 5)] = PoolKeys[<<"A", "-">>]
  /\ PoolKeys[NumberToString(5)] = PoolKeys[<<"A", "+">>]
  /\ \A i \in Tracks : \A k \in DOMAIN audio._tracks_[i].notes :
       \A tone \in {audio._tracks_[i].notes[k].tone} :
         (IsNum(tone) /\ tone.num \in (0 - 10)..14) =>
           /\ KeyLookup(tone) = KeyLookup(JSStr(LetterKeyOf(tone.num)))
           /\ Len(audio._tracks_[i].notes) = 1 =>
                \A e \in DOMAIN audio._tracks_[i].keys :
                  e = KeyLookup(JSStr(LetterKeyOf(tone.num)))

\* a tick has scheduled the note add_note(-5, 20) stored, on the entry of 'A-'
NumberScheduledOnLetterEntry ==
  /\ call.tone = JSNum(0 - 5)
  /\ \E i \in Tracks :
       /\ Len(audio._tracks_[i].notes) = 1
       /\ audio._tracks_[i].notes[1].tone = JSNum(0 - 5)
       /\ DOMAIN audio._tracks_[i].keys = {PoolKeys[<<"A", "-">>]}

\* the note of the latest add_note call is the last note of the track that
\* was the current track
CallStored ==
  /\ call.track \in Tracks
  /\ audio._tracks_[call.track].notes # <<>>
  /\ audio._tracks_[call.track].notes[Len(audio._tracks_[call.track].notes)] = call.note

DurationLetters == <<"t", "s", "e", "q", "h", "f">>

\* 32, 16, 8, 4, 2, 1 for t, s, e, q, h, f
Denominator(c) == 2 ^ (Len(DurationLetters) - IndexOf(DurationLetters, c) - 1)

\* the latest add_note call had a duration letter, alone or dotted
LetterDuration ==
  /\ IsStr(call.duration)
  /\ Len(call.duration.str) \in {1, 2}
  /\ IndexOf(DurationLetters, call.duration.str[1]) >= 0
  /\ Len(call.duration.str) = 2 => call.duration.str[2] = "."

\* C16: add_note stores 1/32, 1/16, 1/8, 1/4, 1/2, 1 of FULL_NOTE_LENGTH =
\* (60/BPM)*4 for the letters t, s, e, q, h, f, and for a dotted letter
\* exactly 1.5 times what it stores for the letter alone
DurationLettersResolve ==
  /\ FULL_NOTE_LENGTH * BPM = Seconds(60) * 4
  /\ LetterDuration =>
       /\ CallStored
       /\ call.warnings = <<>>
       /\ IsNum(call.note.duration)
       /\ Len(call.duration.str) = 1 =>
            call.note.duration.num * Denominator(call.duration.str[1]) = FULL_NOTE_LENGTH
       /\ Len(call.duration.str) = 2 =>
            \A alone \in {MakeNote(call.tone, JSStr(<<call.duration.str[1]>>)).note.duration} :
              /\ alone.num * Denominator(call.duration.str[1]) = FULL_NOTE_LENGTH
              /\ 2 * call.note.duration.num = 3 * alone.num

\* add_note('A', 't.') was the latest call
DottedThirtySecondStored ==
  /\ call.duration = JSStr(<<"t", ".">>)
  /\ CallStored
  /\ call.note.duration = JSNum((3 * FULL_NOTE_LENGTH) \div 64)

\* C17: add_note with a duration string whose first letter is unknown
\* reports a warning and stores the quarter-note duration
UnknownLetterStoresQuarterNote ==
  (IsStr(call.duration) /\ call.duration.str # <<>>
     /\ IndexOf(DurationLetters, call.duration.str[1]) < 0) =>
    /\ CallStored
    /\ call.warnings # <<>>
    /\ call.note.duration = JSNum(FULL_NOTE_LENGTH \div 4)

RECURSIVE SumOfSeconds(_, _)
SumOfSeconds(notes, i) ==
  IF i > Len(notes) THEN 0 ELSE notes[i].duration.num + SumOfSeconds(notes, i + 1)

\* the track of the example: add_note('A', 'q'), add_rest('q'), add_note('C', 'h')
ExampleTrack ==
  [keys |-> <<>>,
   notes |-> <<MakeNote(JSStr(<<"A">>), JSStr(<<"q">>)).note,
               add_rest_note(JSStr(<<"q">>)).note,
               MakeNote(JSStr(<<"C">>), JSStr(<<"h">>)).note>>]

\* C18: track_duration of every track is the number that is the sum of the
\* durations of its notes, rests included; the example track has durations
\* 1/4, 1/4, 1/2 of FULL_NOTE_LENGTH and track_duration FULL_NOTE_LENGTH
TrackDurationIsSum ==
  /\ \A i \in Tracks :
       /\ track_duration(audio._tracks_[i]) = JSNum(SumOfSeconds(audio._tracks_[i].notes, 1))
       /\ audio._tracks_[i].notes = ExampleTrack.notes =>
            /\ [k \in 1..3 |-> audio._tracks_[i].notes[k].duration.num * 4]
                 = <<FULL_NOTE_LENGTH, FULL_NOTE_LENGTH, 2 * FULL_NOTE_LENGTH>>
            /\ track_duration(audio._tracks_[i]) = JSNum(FULL_NOTE_LENGTH)

\* C20: a defined CURRENT_TRACK is one of the tracks of CURRENT_AUDIO, and
\* no call changes the tracks or notes of a player created before it:
\* add_note, add_rest and new_track act on CURRENT_AUDIO only
CallsActOnCurrentPlayer ==
  [][/\ IsUndefined(CURRENT_TRACK') \/ IsNum(CURRENT_TRACK')
     /\ IsNum(CURRENT_TRACK') =>
          /\ owner' = Len(older') + 1
          /\ CURRENT_TRACK'.num \in 1..Len(audio'._tracks_)
     /\ \A p \in DOMAIN older : p \in DOMAIN older' /\ older'[p] = older[p]
     /\ Len(older') > Len(older) =>
          /\ older' = Append(older, audio)
          /\ audio' = new_audio
          /\ IsUndefined(CURRENT_TRACK')
     /\ Len(older') = Len(older) /\ audio'._tracks_ # audio._tracks_ =>
          /\ IsNum(CURRENT_TRACK')
          /\ \A i \in DOMAIN audio._tracks_ :
               i # CURRENT_TRACK'.num => audio'._tracks_[i] = audio._tracks_[i]
    ]_vars

\* the second player holds a note added after new_audio, and the first
\* player holds the note added before
NoteAddedAfterNewAudio ==
  /\ Len(older) = 1
  /\ TotalNotes(older[1]) = 1
  /\ IsNum(CURRENT_TRACK)
  /\ Len(audio._tracks_[CURRENT_TRACK.num].notes) = 2

\* the notes sequence of every track of the player
Notes(a) == [i \in DOMAIN a._tracks_ |-> a._tracks_[i].notes]

\* C19: a scheduler tick, toggle_play and reset_audio leave every track's
\* notes as they are, and any other step changes the notes of an existing
\* track only by appending the note of the add_note call at the end of the
\* track that was the current track
NotesOnlyAppended ==
  [][/\ (Tick \/ Play \/ Pause \/ TogglePlay \/ ResetAudio) => Notes(audio') = Notes(audio)
     /\ DOMAIN audio._tracks_ \subseteq DOMAIN audio'._tracks_
     /\ \A i \in DOMAIN audio._tracks_ :
          \/ Notes(audio')[i] = Notes(audio)[i]
          \/ /\ CURRENT_TRACK = JSNum(i)
             /\ CURRENT_TRACK' = CURRENT_TRACK
             /\ Notes(audio')[i] = Append(Notes(audio)[i], call'.note)
     /\ \A i \in DOMAIN audio'._tracks_ \ DOMAIN audio._tracks_ :
          \/ Notes(audio')[i] = <<>>
          \/ IsUndefined(CURRENT_TRACK) /\ Notes(audio')[i] = <<call'.note>>
    ]_vars

\* a track of two different notes has been played, rewound and played again
TwoNotesPlayedResetAndPlayed ==
  /\ after_play.phase = "armed"
  /\ TickRan
  /\ \E i \in DOMAIN tick.logs :
       /\ NewCommits(i) # {}
       /\ Len(audio._tracks_[i].notes) = 2
       /\ audio._tracks_[i].notes[1] # audio._tracks_[i].notes[2]
       /\ audio._tracks_[i].notes[2] = call.note

IsRest(note) == IsStr(note.tone) /\ note.tone.str = <<"-">>

\* no entry of the pool of track i holds an event with a time after from
\* and before to
NoEventBetween(i, from, to) ==
  \A e \in DOMAIN audio._tracks_[i].keys :
    \A k \in DOMAIN audio._tracks_[i].keys[e].events :
      ~(from < audio._tracks_[i].keys[e].events[k].time
          /\ audio._tracks_[i].keys[e].events[k].time < to)

\* C21: a rest at the cursor is committed without any envelope event, its
\* duration is added to target_time and next_note advances by one modulo
\* the track length; a track of rests only never holds an event
RestsAdvanceSilently ==
  /\ TickRan =>
       \A i \in DOMAIN tick.logs : \A j \in NewCommits(i) :
         \A c \in {LogOf(i)[j]} :
           IsRest(audio._tracks_[i].notes[c.index + 1]) =>
             /\ c.next = (c.index + 1) % c.length
             /\ NoEventBetween(i, c.when, c.when + c.duration.num)
             /\ IF j < Len(LogOf(i))
                  THEN /\ LogOf(i)[j + 1].when = c.when + c.duration.num
                       /\ LogOf(i)[j + 1].index = c.next
                  ELSE /\ audio._track_states_[i].target_time = JSNum(c.when + c.duration.num)
                       /\ audio._track_states_[i].next_note = c.next
  /\ \A i \in Tracks :
       /\ \A n \in DOMAIN audio._tracks_[i].notes :
            IsRest(audio._tracks_[i].notes[n]) =>
              schedule_note(audio._tracks_[i], audio._tracks_[i].notes[n],
                            audio._ctx_.currentTime, audio._ctx_.currentTime)
                = [track |-> audio._tracks_[i], threw |-> ""]
       /\ (\A n \in DOMAIN audio._tracks_[i].notes : IsRest(audio._tracks_[i].notes[n]))
            => DOMAIN audio._tracks_[i].keys = {}

\* a tick has committed the only note of a track, a rest, more than once
\* and the track holds no event
SingleRestLooped ==
  /\ TickRan
  /\ \E i \in DOMAIN tick.logs :
       /\ Len(audio._tracks_[i].notes) = 1
       /\ IsRest(audio._tracks_[i].notes[1])
       /\ Cardinality(NewCommits(i)) >= 2
       /\ IsNum(audio._track_states_[i].target_time)
       /\ audio._track_states_[i].target_time.num > tick.now
       /\ DOMAIN audio._tracks_[i].keys = {}

\* the four events of the envelope of a note of duration d that starts at t
Envelope(t, d) ==
  << Event("set", 0, t), Event("ramp", 1, t + d \div 5),
     Event("set", 1, t + d \div 2), Event("ramp", 0, t + d) >>

\* the parameter after the four calls of the envelope, made at clock time now
RECURSIVE WithEnvelope(_, _, _, _)
WithEnvelope(param, events, k, now) ==
  IF k > Len(events) THEN param
  ELSE WithEnvelope(Schedule(param, events[k].type, events[k].value, events[k].time, now),
                    events, k + 1, now)

\* the times at which the notes of track i are given to schedule_note
Whens(i) ==
  {audio._ctx_.currentTime, audio._ctx_.currentTime + Seconds(20)}
    \cup (IF IsNum(audio._track_states_[i].target_time)
            THEN {audio._track_states_[i].target_time.num} ELSE {})

\* C22: schedule_note for a note that is no rest, with duration d, at time
\* t changes the pool entry of the note's tone only, by exactly the four
\* events set 0 at t, ramp to 1 at t + 0.2 d, set 1 at t + 0.5 d, ramp to 0
\* at t + d, whatever the clock time of the call
EnvelopeIsFourAbsoluteEvents ==
  \A i \in Tracks : \A n \in DOMAIN audio._tracks_[i].notes : \A t \in Whens(i) :
    \A note \in {audio._tracks_[i].notes[n]} : \A now \in {audio._ctx_.currentTime} :
      \A r \in {schedule_note(audio._tracks_[i], note, t, now)} :
        (~IsRest(note) /\ r.threw = "") =>
          /\ ~MissingKey(note)
          /\ \A e \in Entries \ {KeyLookup(note.tone)} :
               Gain(r.track, e) = Gain(audio._tracks_[i], e)
          /\ r.track.notes = audio._tracks_[i].notes
          /\ Gain(r.track, KeyLookup(note.tone))
               = WithEnvelope(Gain(audio._tracks_[i], KeyLookup(note.tone)),
                              Envelope(t, note.duration.num), 1, now)
          /\ (t > now /\ note.duration.num > 0) =>
               /\ Gain(r.track, KeyLookup(note.tone)).events
                    = Gain(audio._tracks_[i], KeyLookup(note.tone)).events
                        \o Envelope(t, note.duration.num)
               /\ Gain(r.track, KeyLookup(note.tone)).value
                    = Gain(audio._tracks_[i], KeyLookup(note.tone)).value
               /\ schedule_note(audio._tracks_[i], note, t, 0).track = r.track

\* a tick has committed a note for a time after the clock time of the tick,
\* and the four events of its envelope are the last of its pool entry
EnvelopeCommittedAhead ==
  /\ TickRan
  /\ \E i \in DOMAIN tick.logs : \E j \in NewCommits(i) :
       \E c \in {LogOf(i)[j]} : \E note \in {audio._tracks_[i].notes[c.index + 1]} :
         /\ c.when > tick.now
         /\ ~IsRest(note) /\ ~MissingKey(note)
         /\ IsNum(note.duration) /\ note.duration.num > 0
         /\ \E ev \in {Gain(audio._tracks_[i], KeyLookup(note.tone)).events} :
              /\ Len(ev) >= 4
              /\ SubSeq(ev, Len(ev) - 3, Len(ev)) = Envelope(c.when, note.duration.num)

\* C23: next_note of every track is 0 when the track is empty and an index
\* of a note otherwise, and every commit moves it from the index of the
\* note to (index + 1) mod the length the track has then, also when notes
\* were appended after target_time was initialised
CursorIsValid ==
  /\ \A i \in Tracks :
       IF audio._tracks_[i].notes = <<>>
         THEN audio._track_states_[i].next_note = 0
         ELSE audio._track_states_[i].next_note \in 0..(Len(audio._tracks_[i].notes) - 1)
  /\ TickRan =>
       \A i \in DOMAIN tick.logs : \A j \in NewCommits(i) :
         \A c \in {LogOf(i)[j]} :
           /\ c.index \in 0..(c.length - 1)
           /\ c.length <= Len(audio._tracks_[i].notes)
           /\ c.next = (c.index + 1) % c.length
           /\ j = Len(LogOf(i)) => audio._track_states_[i].next_note = c.next

\* a tick has committed the second of two notes of a track that had fewer
\* notes when its target_time was initialised, the player is playing, and
\* the cursor is back at 0
AppendedNoteCommittedWhilePlaying ==
  /\ TickRan
  /\ audio._play_state_ = "playing"
  /\ \E i \in DOMAIN tick.logs : \E j \in NewCommits(i) :
       /\ LogOf(i)[j].grown
       /\ LogOf(i)[j].len0 < 2
       /\ LogOf(i)[j].length = 2
       /\ LogOf(i)[j].index = 1
       /\ LogOf(i)[j].next = 0

\* the while loop of schedule_audio for track k of the player has exited:
\* its condition is false or the track has no note to read
LoopExited(a, k) ==
  \/ a._tracks_[k].notes = <<>>
  \/ ~(IsNum(a._track_states_[k].target_time)
         /\ a._track_states_[k].target_time.num < a._ctx_.currentTime + Lookahead)

\* C24: schedule_audio commits nothing for a track without notes, leaves
\* the track and its next_note = 0 as they are, and goes on to the track
\* after it
EmptyTrackIsSkipped ==
  /\ \A i \in Tracks :
       audio._tracks_[i].notes = <<>> =>
         /\ audio._track_states_[i].next_note = 0
         /\ DOMAIN audio._tracks_[i].keys = {}
         /\ TickRan /\ i \in DOMAIN tick.logs => NewCommits(i) = {}
  /\ \A r \in {schedule_audio(audio)} :
       \A i \in Tracks :
         (audio._tracks_[i].notes = <<>> /\ \A k \in 1..(i - 1) : LoopExited(r.audio, k)) =>
           /\ ~IsUndefined(r.audio._track_states_[i].target_time)
           /\ r.logs[i] = <<>>
           /\ r.audio._tracks_[i] = audio._tracks_[i]
           /\ r.audio._track_states_[i].next_note = 0
           /\ i + 1 \in Tracks => ~IsUndefined(r.audio._track_states_[i + 1].target_time)
           /\ i = Len(audio._tracks_) => r.outcome = "returned"

\* a tick passed the first track, which has no notes, and committed a note
\* of the second
CommittedAfterEmptyTrack ==
  /\ TickRan
  /\ tick.outcome = "returned"
  /\ DOMAIN tick.logs = {1, 2}
  /\ audio._tracks_[1].notes = <<>>
  /\ IsNum(audio._track_states_[1].target_time)
  /\ NewCommits(2) # {}

\* C25: every call of schedule_audio terminates: no tick stays in the while
\* loop of a track for ever
EveryTickTerminates ==
  /\ ~hung
  /\ tick.outcome # "hung"

\* C26: while _play_state_ is stopped every track state has next_note = 0
\* and target_time unset, and no pool entry has a pending event
StoppedMeansRewound ==
  audio._play_state_ = "stopped" =>
    /\ \A i \in Tracks :
         audio._track_states_[i] = [next_note |-> 0, target_time |-> JSUndefined]
    /\ \A i \in Tracks : \A e \in DOMAIN audio._tracks_[i].keys :
         audio._tracks_[i].keys[e].events = <<>>

\* C27: no tick commits a note for a start time earlier than the clock time
\* at which the tick runs
CommitsNotInThePast ==
  TickRan =>
    \A i \in DOMAIN tick.logs : \A j \in NewCommits(i) :
      LogOf(i)[j].when >= tick.now

\* C28: after toggle_mute(audio, false) the master gain is the last volume
\* the player had while not muted: the value of the latest set_volume, or
\* the initial volume
UnmuteRestoresLastVolume ==
  vol.op = "unmute" => audio._ctx_._final_gain_ = vol.last

\* the track after schedule_note for each of the commits of log from the
\* j-th on, at clock time now
RECURSIVE Replay(_, _, _, _)
Replay(track, log, j, now) ==
  IF j > Len(log) THEN track
  ELSE Replay(schedule_note(track, track.notes[log[j].index + 1], log[j].when, now).track,
              log, j + 1, now)

\* the state of a track after the commits of log, from the state before
StateAfter(state, log, now) ==
  IF log = <<>>
    THEN [state EXCEPT !.target_time = IF IsUndefined(@) THEN JSNum(now) ELSE @]
    ELSE [next_note |-> log[Len(log)].next,
          target_time |-> JSNum(log[Len(log)].when + log[Len(log)].duration.num)]

\* C29: when schedule_audio fails on a note whose tone has no pool entry,
\* the track's next_note and target_time are as they were just before the
\* note was read, the pool holds the events of the notes committed before
\* it and none of the failing note, and the notes and the play state are
\* unchanged
FailedLookupKeepsTrackState ==
  /\ \A r \in {schedule_audio(audio)} : \A now \in {audio._ctx_.currentTime} :
       \A i \in Tracks :
         (/\ r.outcome = "TypeError"
          /\ IsNum(r.audio._track_states_[i].target_time)
          /\ r.audio._track_states_[i].target_time.num < now + Lookahead
          /\ audio._tracks_[i].notes # <<>>
          /\ MissingKey(audio._tracks_[i].notes[r.audio._track_states_[i].next_note + 1])) =>
            /\ r.audio._track_states_[i] = StateAfter(audio._track_states_[i], r.logs[i], now)
            /\ r.audio._tracks_[i] = Replay(audio._tracks_[i], r.logs[i], 1, now)
            /\ \A j \in DOMAIN r.logs[i] :
                 ~MissingKey(audio._tracks_[i].notes[r.logs[i][j].index + 1])
            /\ r.audio._tracks_[i].notes = audio._tracks_[i].notes
            /\ r.audio._play_state_ = audio._play_state_
            /\ r.audio.intervals = audio.intervals
            /\ \A k \in Tracks : k > i => r.audio._tracks_[k] = audio._tracks_[k]
  /\ (TickRan /\ tick.outcome = "TypeError") =>
       \A i \in DOMAIN tick.logs :
         (AtMissingKey(i) /\ NewCommits(i) # {}) =>
           \A c \in {LogOf(i)[Len(LogOf(i))]} :
             /\ audio._track_states_[i].next_note = c.next
             /\ audio._track_states_[i].target_time = JSNum(c.when + c.duration.num)

\* a tick of the playing player failed on the first note it read of a
\* track, and the track's target_time is the clock time of the tick
TickThrewOnFirstNoteRead ==
  /\ tick.outcome = "TypeError"
  /\ audio._play_state_ = "playing"
  /\ \E i \in DOMAIN tick.logs :
       /\ AtMissingKey(i)
       /\ NewCommits(i) = {}
       /\ audio._track_states_[i] = [next_note |-> 0, target_time |-> JSNum(tick.now)]
       /\ DOMAIN audio._tracks_[i].keys = {}

\* C30: a player created before a reset() has no active scheduler timer
\* and commits no further envelope event
PlayersBeforeResetAreSilent ==
  [][\A p \in DOMAIN older' :
       /\ older'[p].intervals = {}
       /\ p \in DOMAIN older => older'[p]._tracks_ = older[p]._tracks_
    ]_vars

====
